---- MODULE Spec2Model ----
(***************************************************************************)
(* Joint-distribution inference of code/chap09.ipynb: make_joint, the      *)
(* likelihood grid of "A is taller than B", the update (elementwise        *)
(* product and normalize), marginal and the conditional posterior.         *)
(*                                                                         *)
(* Numbers: the notebook computes in IEEE doubles.  The model computes in  *)
(* exact non-negative rationals extended with the two special doubles the  *)
(* code can produce, NaN (0/0) and +Inf (x/0), so "equal within numeric    *)
(* tolerance" is read as exact equality of rationals.                      *)
(* Tables: a DataFrame is a record of its row labels (index), its column   *)
(* labels (columns) and a 2-D array data[i][j] addressed by position.      *)
(***************************************************************************)
EXTENDS Integers, Sequences, FiniteSets

\* ------------------------------------------------------------------ bounds
MaxVal == 2
MaxW == 1
MaxUpdates == 2

\* ------------------------------------------------------------- float model
NaN == [n |-> 0, d |-> 0]
Inf == [n |-> 1, d |-> 0]
Zero == [n |-> 0, d |-> 1]
One == [n |-> 1, d |-> 1]

RECURSIVE GCD(_, _)
GCD(a, b) == IF b = 0 THEN a ELSE GCD(b, a % b)

Rat(n, d) ==
  IF d = 0 THEN (IF n = 0 THEN NaN ELSE Inf)
  ELSE LET g == GCD(n, d) IN [n |-> n \div g, d |-> d \div g]

IsFinite(a) == a.d # 0

RMul(a, b) ==
  IF a = NaN \/ b = NaN THEN NaN
  ELSE IF a = Inf \/ b = Inf
       THEN (IF a = Zero \/ b = Zero THEN NaN ELSE Inf)
       ELSE Rat(a.n * b.n, a.d * b.d)

RAdd(a, b) ==
  IF a = NaN \/ b = NaN THEN NaN
  ELSE IF a = Inf \/ b = Inf THEN Inf
       ELSE Rat(a.n * b.d + b.n * a.d, a.d * b.d)

RDiv(a, b) ==
  IF a = NaN \/ b = NaN THEN NaN
  ELSE IF a = Inf THEN (IF b = Inf THEN NaN ELSE Inf)
  ELSE IF b = Inf THEN Zero
  ELSE IF b = Zero THEN (IF a = Zero THEN NaN ELSE Inf)
  ELSE Rat(a.n * b.d, a.d * b.n)

\* a < b on finite numbers
RLess(a, b) == IsFinite(a) /\ IsFinite(b) /\ a.n * b.d < b.n * a.d

\* ndarray.sum(): NaN propagates
RECURSIVE NpSum(_)
NpSum(s) == IF s = <<>> THEN Zero ELSE RAdd(Head(s), NpSum(Tail(s)))

\* Series.sum() / DataFrame.sum(axis): skipna=True leaves NaN out
RECURSIVE SkipnaSum(_)
SkipnaSum(s) ==
  IF s = <<>> THEN Zero
  ELSE IF Head(s) = NaN THEN SkipnaSum(Tail(s))
       ELSE RAdd(Head(s), SkipnaSum(Tail(s)))

\* ------------------------------------------------------------ sequences
Range(s) == {s[i] : i \in 1..Len(s)}

Pos(s, v) == CHOOSE i \in 1..Len(s) : s[i] = v

RECURSIVE SortedSeq(_)
SortedSeq(S) ==
  IF S = {} THEN <<>>
  ELSE LET m == CHOOSE x \in S : \A y \in S : x <= y
       IN <<m>> \o SortedSeq(S \ {m})

Flatten(data) ==
  LET RECURSIVE F(_)
      F(rows) == IF rows = <<>> THEN <<>> ELSE Head(rows) \o F(Tail(rows))
  IN F(data)

\* ------------------------------------------------------------------- Pmf
None == "None"

\* Pmf(ps, qs): probabilities ps indexed by quantities qs
Pmf(ps, qs) == [qs |-> qs, ps |-> ps]

\* Pmf(series): copies the data of a Series
PmfOfSeries(s) == [qs |-> s.qs, ps |-> s.ps]

\* Pmf.normalize(): divide by the total in place, return the total
PmfTotal(p) == SkipnaSum(p.ps)

\* mutant: the weights are left undivided
PmfNormalized_noop(p) == [qs |-> p.qs, ps |-> p.ps]

PmfNormalized(p) ==
  [qs |-> p.qs, ps |-> [i \in 1..Len(p.ps) |-> RDiv(p.ps[i], PmfTotal(p))]]

\* Pmf.mean(): sum of qs * ps
PmfMean(p) ==
  SkipnaSum([i \in 1..Len(p.qs) |-> RMul(Rat(p.qs[i], 1), p.ps[i])])

\* ------------------------------------------------------------- DataFrame
\* np.meshgrid(x, y): X[i][j] = x[j], Y[i][j] = y[i]
MeshX(x, y) == [i \in 1..Len(y) |-> [j \in 1..Len(x) |-> x[j]]]
MeshY(x, y) == [i \in 1..Len(y) |-> [j \in 1..Len(x) |-> y[i]]]

NRows(a) == Len(a)
NCols(a) == IF a = <<>> THEN 0 ELSE Len(a[1])

\* pd.DataFrame(a, index=, columns=) raises ValueError unless the labels
\* have the lengths of the array's axes
FrameShapeOK(a, index, columns) ==
  Len(index) = NRows(a) /\ Len(columns) = NCols(a)

DataFrame(a, index, columns) ==
  [index |-> index, columns |-> columns, data |-> a]

\* label-based cell lookup; a label missing on either axis reindexes to NaN
Loc(t, r, c) ==
  IF r \in Range(t.index) /\ c \in Range(t.columns)
  THEN t.data[Pos(t.index, r)][Pos(t.columns, c)]
  ELSE NaN

\* outer join of two label sequences: kept when equal, else sorted union
AlignLabels(a, b) ==
  IF a = b THEN a ELSE SortedSeq(Range(a) \cup Range(b))

\* mutant: the tables are added cell by cell
FrameMul_add(t, u) ==
  LET idx == AlignLabels(t.index, u.index)
      cols == AlignLabels(t.columns, u.columns)
  IN [index |-> idx, columns |-> cols,
      data |-> [i \in 1..Len(idx) |-> [j \in 1..Len(cols) |->
                  RAdd(Loc(t, idx[i], cols[j]), Loc(u, idx[i], cols[j]))]]]

\* joint * likelihood: DataFrame arithmetic aligns both axes on labels
FrameMul(t, u) ==
  LET idx == AlignLabels(t.index, u.index)
      cols == AlignLabels(t.columns, u.columns)
  IN [index |-> idx, columns |-> cols,
      data |-> [i \in 1..Len(idx) |-> [j \in 1..Len(cols) |->
                  RMul(Loc(t, idx[i], cols[j]), Loc(u, idx[i], cols[j]))]]]

\* mutant: the total of the first row only
FrameTotal_firstrow(t) == NpSum(t.data[1])

\* joint.to_numpy().sum()
FrameTotal(t) == NpSum(Flatten(t.data))

\* joint /= prob_data
FrameDiv(t, k) ==
  [index |-> t.index, columns |-> t.columns,
   data |-> [i \in 1..Len(t.index) |-> [j \in 1..Len(t.columns) |->
               RDiv(t.data[i][j], k)]]]

\* joint.sum(axis): axis=0 adds up the rows of each column (a Series over
\* the column labels), axis=1 adds up the columns of each row
FrameSum(t, axis) ==
  IF axis = 0
  THEN [qs |-> t.columns,
        ps |-> [j \in 1..Len(t.columns) |->
                  SkipnaSum([i \in 1..Len(t.index) |-> t.data[i][j]])]]
  ELSE [qs |-> t.index,
        ps |-> [i \in 1..Len(t.index) |-> SkipnaSum(t.data[i])]]

\* posterior[v]: the column labelled v, a Series over the row labels
FrameColumn(t, v) ==
  [qs |-> t.index,
   ps |-> [i \in 1..Len(t.index) |-> t.data[i][Pos(t.columns, v)]]]

\* ------------------------------------------------------ notebook functions
\* mutant: the outer product takes both factors from pmf1's grid
make_joint_XX(p1, p2) ==
  LET X == MeshX(p1.ps, p2.ps)
  IN DataFrame([i \in 1..Len(p2.ps) |-> [j \in 1..Len(p1.ps) |->
                  RMul(X[i][j], X[i][j])]],
               p2.qs, p1.qs)

\* make_joint(pmf1, pmf2)
make_joint(p1, p2) ==
  LET X == MeshX(p1.ps, p2.ps)
      Y == MeshY(p1.ps, p2.ps)
  IN DataFrame([i \in 1..Len(p2.ps) |-> [j \in 1..Len(p1.ps) |->
                  RMul(X[i][j], Y[i][j])]],
               p2.qs, p1.qs)

\* the evidence functions: "gt" is X > Y of the notebook
EvidenceFns == {"gt", "ones", "gt1000"}

\* the evidence functions of a sequence of updates: "geby" is taller by at
\* least a given amount
SeqEvidenceFns == {"gt", "ones", "geby"}

\* mutant: the comparison is reversed
Evidence_lt(f, xv, yv) ==
  IF f = "gt" THEN xv < yv
  ELSE IF f = "ones" THEN TRUE
  ELSE IF f = "geby" THEN xv + 2 <= yv
  ELSE xv > yv + 1000

Evidence(f, xv, yv) ==
  IF f = "gt" THEN xv > yv
  ELSE IF f = "ones" THEN TRUE
  ELSE IF f = "geby" THEN xv >= yv + 2
  ELSE xv > yv + 1000

\* a = np.where(f(X, Y), 1, 0) on the mesh grid of x and y
LikelihoodArray(x, y, f) ==
  LET X == MeshX(x, y)
      Y == MeshY(x, y)
  IN [i \in 1..Len(y) |-> [j \in 1..Len(x) |->
        IF Evidence(f, X[i][j], Y[i][j]) THEN One ELSE Zero]]

\* mutant: every column is divided by its own sum (joint /= joint.sum())
normalize_table_bycolumn(t) ==
  [index |-> t.index, columns |-> t.columns,
   data |-> [i \in 1..Len(t.index) |-> [j \in 1..Len(t.columns) |->
               RDiv(t.data[i][j], FrameSum(t, 0).ps[j])]]]

\* normalize(joint): the table after joint /= prob_data, and prob_data
normalize_table(t) == FrameDiv(t, FrameTotal(t))
\* mutant: the total is taken after the division
normalize_result_after(t) == FrameTotal(FrameDiv(t, FrameTotal(t)))

normalize_result(t) == FrameTotal(t)

\* mutant: the axes are transposed
marginal_swapped(t, axis) == PmfOfSeries(FrameSum(t, 1 - axis))

\* marginal(joint, axis)
marginal(t, axis) == PmfOfSeries(FrameSum(t, axis))

\* --------------------------------------------------------------- inputs
Values == 1..MaxVal

\* the quantities of a distribution: a grid of distinct values in ascending
\* (np.arange) or descending order
ValueSeqs ==
  {s \in UNION {[1..k -> Values] : k \in 1..MaxVal} :
     \/ \A i \in 1..(Len(s) - 1) : s[i] < s[i + 1]
     \/ \A i \in 1..(Len(s) - 1) : s[i] > s[i + 1]}

WeightSeqs(k) ==
  {w \in [1..k -> 0..MaxW] : \E i \in 1..k : w[i] > 0}

\* the distribution of the worked scenario: {1,2,3} with {0.2,0.3,0.5}
ScenarioPmf == Pmf(<<Rat(2, 10), Rat(3, 10), Rat(5, 10)>>, <<1, 2, 3>>)

Pmfs ==
  {Pmf([i \in 1..Len(qs) |-> Rat(w[i], 1)], qs) :
     <<qs, w>> \in {<<q, v>> \in ValueSeqs \X UNION {WeightSeqs(k) : k \in 1..MaxVal} :
                      Len(q) = Len(v)}}
  \cup {ScenarioPmf}

Lookups == Values \cup Range(ScenarioPmf.qs)

\* ----------------------------------------------------------------- state
VARIABLES pmf1, pmf2, joint, total, x, y, fn, likelihood, posterior,
          prob_data, marginal_A, marginal_B, margOf, key, column, cond_B,
          cond_total, history, pc, err

vars == <<pmf1, pmf2, joint, total, x, y, fn, likelihood, posterior,
          prob_data, marginal_A, marginal_B, margOf, key, column, cond_B,
          cond_total, history, pc, err>>

Init ==
  /\ pmf1 \in Pmfs
  /\ pmf2 \in Pmfs
  /\ joint = None /\ total = None
  /\ x = None /\ y = None /\ fn = None /\ likelihood = None
  /\ posterior = None /\ prob_data = None
  /\ marginal_A = None /\ marginal_B = None /\ margOf = None
  /\ key = None /\ column = None /\ cond_B = None /\ cond_total = None
  /\ history = <<>>
  /\ pc = "priors" /\ err = None

\* prior.normalize()
NormalizePriors ==
  /\ pc = "priors"
  /\ pmf1' = PmfNormalized(pmf1)
  /\ pmf2' = PmfNormalized(pmf2)
  /\ pc' = "normalized"
  /\ UNCHANGED <<joint, total, x, y, fn, likelihood, posterior, prob_data,
                 marginal_A, marginal_B, margOf, column, cond_B, cond_total,
                 err,
                 key, history>>

\* joint = make_joint(pmf1, pmf2); joint.to_numpy().sum()
MakeJoint ==
  /\ pc \in {"priors", "normalized"}
  /\ joint' = make_joint(pmf1, pmf2)
  /\ total' = FrameTotal(joint')
  /\ pc' = "joint"
  /\ UNCHANGED <<pmf1, pmf2, x, y, fn, likelihood, posterior, prob_data,
                 marginal_A, marginal_B, margOf, column, cond_B, cond_total,
                 err,
                 key, history>>

\* marginal(joint, axis=0), marginal(joint, axis=1) on the joint prior
MarginalsOfJoint ==
  /\ pc = "joint"
  /\ marginal_A' = marginal(joint, 0)
  /\ marginal_B' = marginal(joint, 1)
  /\ margOf' = "joint"
  /\ pc' = "jointmarginals"
  /\ UNCHANGED <<pmf1, pmf2, joint, total, x, y, fn, likelihood, posterior,
                 prob_data, column, cond_B, cond_total, err,
                 key, history>>

\* x = joint.columns; y = joint.index; X, Y = np.meshgrid(x, y);
\* a = np.where(f(X, Y), 1, 0); likelihood = pd.DataFrame(a, index=x, columns=y)
MakeLikelihood(f) ==
  /\ pc = "jointmarginals"
  /\ x' = joint.columns
  /\ y' = joint.index
  /\ fn' = f
  /\ LET a == LikelihoodArray(x', y', f)
     IN IF FrameShapeOK(a, x', y')
        THEN /\ likelihood' = DataFrame(a, x', y')
             /\ pc' = "likelihood"
             /\ err' = err
        ELSE /\ likelihood' = likelihood
             /\ pc' = "error"
             /\ err' = "ValueError"
  /\ UNCHANGED <<pmf1, pmf2, joint, total, posterior, prob_data,
                 marginal_A, marginal_B, margOf, column, cond_B, cond_total,
                 key, history>>

\* mutant: the product is taken in place of the prior (joint *= likelihood)
Update_inplace ==
  /\ pc = "likelihood"
  /\ LET product == FrameMul(joint, likelihood)
     IN /\ posterior' = normalize_table(product)
        /\ joint' = normalize_table(product)
        /\ prob_data' = normalize_result(product)
  /\ pc' = "posterior"
  /\ UNCHANGED <<pmf1, pmf2, total, x, y, fn, likelihood,
                 marginal_A, marginal_B, margOf, column, cond_B, cond_total,
                 err, key, history>>

\* posterior = joint * likelihood; normalize(posterior)
Update ==
  /\ pc = "likelihood"
  /\ LET product == FrameMul(joint, likelihood)
     IN /\ posterior' = normalize_table(product)
        /\ prob_data' = normalize_result(product)
  /\ pc' = "posterior"
  /\ UNCHANGED <<pmf1, pmf2, joint, total, x, y, fn, likelihood,
                 marginal_A, marginal_B, margOf, column, cond_B, cond_total,
                 err,
                 key, history>>

\* marginal_A = marginal(posterior, axis=0); marginal_B = marginal(posterior, axis=1)
Marginals ==
  /\ pc = "posterior"
  /\ marginal_A' = marginal(posterior, 0)
  /\ marginal_B' = marginal(posterior, 1)
  /\ margOf' = "posterior"
  /\ pc' = "marginals"
  /\ UNCHANGED <<pmf1, pmf2, joint, total, x, y, fn, likelihood, posterior,
                 prob_data, column, cond_B, cond_total, err,
                 key, history>>

\* mutant: a key that is not a column label falls back to the column at
\* that position
SelectColumn_positional(v) ==
  /\ pc = "marginals"
  /\ key' = v
  /\ IF v \in Range(posterior.columns) \/ v \in 1..Len(posterior.columns)
     THEN /\ column' = [v |-> v,
                        s |-> FrameColumn(posterior,
                                IF v \in Range(posterior.columns) THEN v
                                ELSE posterior.columns[v])]
          /\ pc' = "column"
          /\ err' = err
     ELSE /\ column' = column
          /\ pc' = "error"
          /\ err' = "KeyError"
  /\ UNCHANGED <<pmf1, pmf2, joint, total, x, y, fn, likelihood, posterior,
                 prob_data, marginal_A, marginal_B, margOf, cond_B,
                 cond_total, history>>

\* column = posterior[v]: KeyError when v is not a column label
SelectColumn(v) ==
  /\ pc = "marginals"
  /\ key' = v
  /\ IF v \in Range(posterior.columns)
     THEN /\ column' = [v |-> v, s |-> FrameColumn(posterior, v)]
          /\ pc' = "column"
          /\ err' = err
     ELSE /\ column' = column
          /\ pc' = "error"
          /\ err' = "KeyError"
  /\ UNCHANGED <<pmf1, pmf2, joint, total, x, y, fn, likelihood, posterior,
                 prob_data, marginal_A, marginal_B, margOf, cond_B,
                 cond_total,
                 history>>

\* Pmf(series) copies the data of the series by default
\* mutant: the Pmf shares the data of the series
PmfCopy_off == FALSE

PmfCopy == TRUE

\* the table whose column labelled v holds the weights ps
FrameSetColumn(t, v, ps) ==
  [index |-> t.index, columns |-> t.columns,
   data |-> [i \in 1..Len(t.index) |-> [j \in 1..Len(t.columns) |->
               IF t.columns[j] = v THEN ps[i] ELSE t.data[i][j]]]]

\* cond_B = Pmf(column); cond_B.normalize(): the division is in place, so
\* it reaches the series, and the table the series may be a view of, only
\* when the Pmf does not own a copy
Conditional ==
  /\ pc = "column"
  /\ LET p == PmfOfSeries(column.s)
     IN /\ cond_B' = PmfNormalized(p)
        /\ cond_total' = PmfTotal(p)
        /\ column' = IF PmfCopy THEN column
                     ELSE [column EXCEPT !.s = PmfNormalized(p)]
        /\ posterior' \in
             IF PmfCopy THEN {posterior}
             ELSE {posterior,
                   FrameSetColumn(posterior, column.v, PmfNormalized(p).ps)}
  /\ pc' = "done"
  /\ UNCHANGED <<pmf1, pmf2, joint, total, x, y, fn, likelihood,
                 prob_data, marginal_A, marginal_B, margOf, err,
                 key, history>>

\* mutant: the next update starts over from the prior of the last one
NextRound_prior ==
  /\ pc = "marginals"
  /\ Len(history) < MaxUpdates - 1
  /\ history' = Append(history, [joint |-> joint, likelihood |-> likelihood,
                                 fn |-> fn, prob_data |-> prob_data])
  /\ joint' = joint
  /\ pc' = "jointmarginals"
  /\ UNCHANGED <<pmf1, pmf2, total, x, y, fn, likelihood, posterior,
                 prob_data, marginal_A, marginal_B, margOf, key, column,
                 cond_B, cond_total, err>>

\* the posterior becomes the prior of the next update
NextRound ==
  /\ pc = "marginals"
  /\ Len(history) < MaxUpdates - 1
  /\ history' = Append(history, [joint |-> joint, likelihood |-> likelihood,
                                 fn |-> fn, prob_data |-> prob_data])
  /\ joint' = posterior
  /\ pc' = "jointmarginals"
  /\ UNCHANGED <<pmf1, pmf2, total, x, y, fn, likelihood, posterior,
                 prob_data, marginal_A, marginal_B, margOf, key, column,
                 cond_B, cond_total, err>>

Next ==
  \/ NormalizePriors
  \/ MakeJoint
  \/ MarginalsOfJoint
  \/ \E f \in EvidenceFns : MakeLikelihood(f)
  \/ Update
  \/ Marginals
  \/ \E v \in Lookups : SelectColumn(v)
  \/ Conditional

Spec == Init /\ [][Next]_vars

\* sequences of updates: prior = Pmf(ps, qs); prior.normalize(); the joint
\* is built from two priors over one grid of values, as in
\* make_joint(prior, prior); then the update cells run again with the
\* posterior as the prior
NormalizedPmfs == {PmfNormalized(p) : p \in Pmfs}

InitSeq ==
  /\ pmf1 \in NormalizedPmfs
  /\ pmf2 \in {p \in NormalizedPmfs : p.qs = pmf1.qs}
  /\ joint = None /\ total = None
  /\ x = None /\ y = None /\ fn = None /\ likelihood = None
  /\ posterior = None /\ prob_data = None
  /\ marginal_A = None /\ marginal_B = None /\ margOf = None
  /\ key = None /\ column = None /\ cond_B = None /\ cond_total = None
  /\ history = <<>>
  /\ pc = "priors" /\ err = None

NextSeq ==
  \/ MakeJoint
  \/ MarginalsOfJoint
  \/ \E f \in SeqEvidenceFns : MakeLikelihood(f)
  \/ Update
  \/ Marginals
  \/ NextRound

SpecSeq == InitSeq /\ [][NextSeq]_vars

\* ------------------------------------------------------- stage predicates
BeforeJoint == pc \in {"priors", "normalized"}
HasJoint == ~BeforeJoint
LikelihoodAttempted == pc \notin {"priors", "normalized", "joint", "jointmarginals"}
HasLikelihood == LikelihoodAttempted /\ err # "ValueError"
UpdateAttempted == HasLikelihood /\ pc # "likelihood"
HasPosterior ==
  \/ pc \in {"posterior", "marginals", "column", "done"}
  \/ (pc = "error" /\ err = "KeyError")

Mass(p) == NpSum(p.ps)
IsNormalized(p) == Mass(p) = One
SameAxes(t, u) == t.index = u.index /\ t.columns = u.columns

\* ---------------------------------------------------------------- claims

\* C1: make_joint(pmf1, pmf2) labels its columns with pmf1's quantities in
\* order and its rows with pmf2's quantities in order, and the cell at
\* (row = y, column = x) is weight1(x) * weight2(y).
C1_JointIsOuterProduct ==
  HasJoint =>
    /\ joint.columns = pmf1.qs
    /\ joint.index = pmf2.qs
    /\ \A i \in 1..Len(pmf2.qs), j \in 1..Len(pmf1.qs) :
         Loc(joint, pmf2.qs[i], pmf1.qs[j]) = RMul(pmf1.ps[j], pmf2.ps[i])

C1_Witness ==
  /\ pc = "joint"
  /\ Len(pmf1.qs) # Len(pmf2.qs)
  /\ pmf1.qs # pmf2.qs
  /\ \E i \in 1..Len(pmf2.qs), j \in 1..Len(pmf1.qs) :
       joint.data[i][j] \notin {Zero, One} /\ pmf1.ps[j] # pmf2.ps[i]

\* C2: the sum of all cells of the joint table is mass(pmf1) * mass(pmf2),
\* and it is 1 when both distributions are normalized.
C2_JointTotalMass ==
  HasJoint =>
    /\ total = RMul(Mass(pmf1), Mass(pmf2))
    /\ (IsNormalized(pmf1) /\ IsNormalized(pmf2)) => total = One

C2_Witness ==
  /\ pc = "joint"
  /\ ~IsNormalized(pmf1) /\ ~IsNormalized(pmf2)
  /\ Len(pmf1.qs) > 1 /\ Len(pmf2.qs) > 1
  /\ total \notin {Zero, One}

\* C3: round trip: for normalized pmf1 and pmf2, the marginal of the joint
\* that sums out the second variable (axis=0) is pmf1, quantities and
\* weights, and the marginal that sums out the first (axis=1) is pmf2.
C3_MarginalRoundTrip ==
  (margOf = "joint" /\ IsNormalized(pmf1) /\ IsNormalized(pmf2)) =>
    /\ marginal_A = pmf1
    /\ marginal_B = pmf2

C3_Witness ==
  /\ margOf = "joint"
  /\ IsNormalized(pmf1) /\ IsNormalized(pmf2)
  /\ pmf1 # pmf2
  /\ Len(pmf1.qs) > 1 /\ Len(pmf2.qs) > 1
  /\ \E i \in 1..Len(pmf1.ps) : pmf1.ps[i] \notin {Zero, One}

\* the sum of prior * likelihood over the cells of two tables on the same axes
ProductSum(t, u) ==
  NpSum([i \in 1..Len(t.index) |->
           NpSum([j \in 1..Len(t.columns) |-> RMul(t.data[i][j], u.data[i][j])])])

\* C4: for a likelihood on the joint's axes with non-zero total product,
\* the update returns the sum of joint * likelihood over all cells as the
\* evidence, and a posterior on the same axes whose every cell is
\* joint * likelihood / evidence.
C4_UpdateNormalizesProduct ==
  (HasPosterior /\ SameAxes(joint, likelihood)
     /\ IsFinite(ProductSum(joint, likelihood))
     /\ ProductSum(joint, likelihood) # Zero) =>
    /\ prob_data = ProductSum(joint, likelihood)
    /\ SameAxes(posterior, joint)
    /\ \A i \in 1..Len(joint.index), j \in 1..Len(joint.columns) :
         posterior.data[i][j] =
           RDiv(RMul(joint.data[i][j], likelihood.data[i][j]),
                ProductSum(joint, likelihood))

C4_Witness ==
  /\ pc = "posterior"
  /\ SameAxes(joint, likelihood)
  /\ fn = "gt"
  /\ prob_data \notin {Zero, One, NaN, Inf}
  /\ \E i \in 1..Len(joint.index), j \in 1..Len(joint.columns) :
       posterior.data[i][j] \notin {Zero, One} /\ posterior.data[i][j] # joint.data[i][j]

\* C5: when joint * likelihood sums to zero the update fails with
\* ZeroEvidence and produces no posterior table.
C5_ZeroEvidenceFails ==
  (UpdateAttempted /\ FrameTotal(FrameMul(joint, likelihood)) = Zero) =>
    (pc = "error" /\ err = "ZeroEvidence")

\* C6: when the row labels or the column labels of the likelihood differ
\* from the joint's, in membership or in order, the update fails with
\* ShapeMismatch and returns no table.
C6_ShapeMismatchFails ==
  (UpdateAttempted /\ ~SameAxes(joint, likelihood)) =>
    (pc = "error" /\ err = "ShapeMismatch")

\* C7: the likelihood grid of x and y has the joint's axis convention: its
\* rows are labelled by y, its columns by x, and the cell at
\* (row = y, column = x) is f(x, y), also when x and y differ in content or
\* in length.
C7_GridAxisConvention ==
  LikelihoodAttempted =>
    /\ err # "ValueError"
    /\ likelihood.index = y
    /\ likelihood.columns = x
    /\ \A i \in 1..Len(y), j \in 1..Len(x) :
         Loc(likelihood, y[i], x[j]) =
           (IF Evidence(fn, x[j], y[i]) THEN One ELSE Zero)

\* C8: after an update with evidence x > y that produced a posterior
\* (non-zero evidence), every posterior cell whose column value is <= its
\* row value is 0, every other cell is its prior value divided by the
\* evidence, and the posterior sums to 1.
C8_TallerPosterior ==
  (HasPosterior /\ fn = "gt" /\ prob_data \notin {Zero, NaN}) =>
    /\ \A r \in Range(posterior.index), c \in Range(posterior.columns) :
         /\ c <= r => Loc(posterior, r, c) = Zero
         /\ c > r => Loc(posterior, r, c) = RDiv(Loc(joint, r, c), prob_data)
    /\ FrameTotal(posterior) = One

Scenario == pmf1 = ScenarioPmf /\ pmf2 = ScenarioPmf

\* C9 as stated: in the worked scenario with evidence x > y, the marginal
\* obtained by summing over the first variable's axis (the columns;
\* marginal_B, axis=1) has a larger mean than the one obtained by summing
\* over the second variable's axis (the rows; marginal_A, axis=0).
C9_FirstAxisMeanLarger ==
  (Scenario /\ fn = "gt" /\ margOf = "posterior") =>
    RLess(PmfMean(marginal_A), PmfMean(marginal_B))

\* C9 amended: in the worked scenario with evidence x > y, the marginal
\* that sums over the second variable's axis (the distribution of the first
\* variable, marginal_A) has a larger mean than the marginal that sums over
\* the first variable's axis (the distribution of the second, marginal_B).
C9_FirstVariableMeanLarger ==
  (Scenario /\ fn = "gt" /\ margOf = "posterior") =>
    RLess(PmfMean(marginal_B), PmfMean(marginal_A))

C9_Witness ==
  /\ Scenario /\ fn = "gt" /\ margOf = "posterior" /\ pc = "marginals"
  /\ IsNormalized(marginal_A) /\ IsNormalized(marginal_B)

\* the mass of the selected column of the posterior
SliceMass ==
  NpSum([i \in 1..Len(posterior.index) |->
           Loc(posterior, posterior.index[i], column.v)])

\* C10: for a fixed value v on the first variable's axis whose column has
\* non-zero mass, the conditional is a distribution over the row values
\* whose weight at u is the joint cell at (u, v) divided by the column's
\* sum, and it sums to 1.
C10_ConditionalIsNormalizedSlice ==
  (pc = "done" /\ IsFinite(SliceMass) /\ SliceMass # Zero) =>
    /\ cond_B.qs = posterior.index
    /\ \A i \in 1..Len(posterior.index) :
         cond_B.ps[i] =
           RDiv(Loc(posterior, posterior.index[i], column.v), SliceMass)
    /\ NpSum(cond_B.ps) = One

C10_Witness ==
  /\ pc = "done"
  /\ IsFinite(SliceMass) /\ SliceMass \notin {Zero, One}
  /\ \E i, j \in 1..Len(cond_B.ps) :
       /\ i # j
       /\ cond_B.ps[i] \notin {Zero, One, NaN}
       /\ cond_B.ps[j] \notin {Zero, One, NaN}
       /\ cond_B.ps[i] # cond_B.ps[j]

\* a column lookup posterior[key] has been made
LookupAttempted ==
  \/ pc \in {"column", "done"}
  \/ (pc = "error" /\ err = "KeyError")

\* C11: a lookup with a value that is not one of the column labels fails
\* with the lookup error (KeyError): no column is selected for it, by
\* position or otherwise, and no conditional is produced.
C11_NonMemberLookupFails ==
  (LookupAttempted /\ key \notin Range(posterior.columns)) =>
    /\ pc = "error"
    /\ err = "KeyError"
    /\ column = None
    /\ cond_B = None

C11_Witness ==
  /\ pc = "error" /\ err = "KeyError"
  /\ key \notin Range(posterior.columns)
  /\ key \in 1..Len(posterior.columns)
  /\ column = None /\ cond_B = None

\* C12: in the posterior of an update with evidence x > y, the conditional
\* obtained by fixing the first variable at v (a column whose mass is
\* non-zero) has its non-zero weights only on values of the second
\* variable that are smaller than v.
C12_ConditionalBelowFixedValue ==
  (pc = "done" /\ fn = "gt" /\ cond_total \notin {Zero, NaN}) =>
    \A i \in 1..Len(cond_B.qs) :
      cond_B.ps[i] # Zero => cond_B.qs[i] < column.v

\* the same statement for priors over one value sequence, where the
\* likelihood's labels coincide with the joint's
C12_OnEqualAxes ==
  (pc = "done" /\ fn = "gt" /\ cond_total \notin {Zero, NaN}
     /\ pmf1.qs = pmf2.qs) =>
    \A i \in 1..Len(cond_B.qs) :
      cond_B.ps[i] # Zero => cond_B.qs[i] < column.v

\* C13: a conditional taken on a column of a posterior (of an update with
\* non-zero evidence) whose cells sum to zero fails with
\* DegenerateDistribution: the attempt ends in that error and no
\* distribution (with NaN or unnormalized weights) is produced.
C13_ZeroSliceFails ==
  (pc = "done" /\ prob_data \notin {Zero, NaN} /\ cond_total = Zero) =>
    /\ err = "DegenerateDistribution"
    /\ cond_B = None

\* C14: updating a normalized table with a likelihood that is 1 in every
\* cell of the same axes changes nothing: the posterior equals the prior
\* cell by cell and the evidence is 1.
C14_IdentityLikelihoodNoOp ==
  (HasPosterior /\ fn = "ones" /\ SameAxes(joint, likelihood)
     /\ FrameTotal(joint) = One) =>
    /\ posterior = joint
    /\ prob_data = One

\* the prior of the no-op update is itself the posterior of an update and
\* has cells strictly between 0 and 1
C14_Witness ==
  /\ pc = "marginals" /\ Len(history) >= 1
  /\ fn = "ones" /\ SameAxes(joint, likelihood)
  /\ FrameTotal(joint) = One
  /\ \E i \in 1..Len(joint.index), j \in 1..Len(joint.columns) :
       joint.data[i][j] \notin {Zero, One}
  /\ posterior = joint /\ prob_data = One
  /\ marginal_A = marginal(joint, 0)

C16_NormalizeLeavesArgument ==
  (HasPosterior /\ prob_data \notin {Zero, NaN}) =>
    posterior = FrameMul(joint, likelihood)

\* C16: building the joint leaves the two distributions unchanged and the
\* update leaves the joint prior, the likelihood and the distributions
\* unchanged, its product being a new table; normalize divides the cells of
\* the table passed to it by their total in place and returns the total.
C16_TransformationFrame ==
  [][/\ (pc \in {"priors", "normalized"} /\ pc' = "joint") =>
          (pmf1' = pmf1 /\ pmf2' = pmf2)
     /\ (pc = "likelihood") =>
          /\ pmf1' = pmf1 /\ pmf2' = pmf2
          /\ joint' = joint
          /\ likelihood' = likelihood
          /\ prob_data' = FrameTotal(FrameMul(joint, likelihood))
          /\ posterior' = FrameDiv(FrameMul(joint, likelihood), prob_data')]_vars

\* an update whose normalization changed the cells of the product
C16_Witness ==
  /\ pc = "posterior"
  /\ prob_data \notin {Zero, One, NaN}
  /\ posterior # FrameMul(joint, likelihood)
  /\ posterior = FrameDiv(FrameMul(joint, likelihood), prob_data)
  /\ joint = make_joint(pmf1, pmf2)

\* the updates made so far were successful: each likelihood was on its
\* joint's axes and each evidence was non-zero
HistorySucceeded ==
  \A k \in 1..Len(history) :
    /\ SameAxes(history[k].joint, history[k].likelihood)
    /\ history[k].prob_data \notin {Zero, NaN}

UpdateSucceeded ==
  /\ HasPosterior
  /\ SameAxes(joint, likelihood)
  /\ prob_data \notin {Zero, NaN}

\* every cell is a number >= 0 and the cells add up to 1
TableMassOne(t) ==
  /\ \A i \in 1..Len(t.index), j \in 1..Len(t.columns) :
       IsFinite(t.data[i][j]) /\ t.data[i][j].n >= 0
  /\ FrameTotal(t) = One

\* C17: starting from the joint of two normalized priors, through any
\* sequence of successful updates, every joint table (each prior and each
\* posterior of the sequence) has cells >= 0 that sum to 1, and the
\* marginals taken from it along either axis each sum to 1.
C17_TotalMassInvariant ==
  (IsNormalized(pmf1) /\ IsNormalized(pmf2) /\ HistorySucceeded) =>
    /\ HasJoint => TableMassOne(joint)
    /\ (pc \in {"jointmarginals", "likelihood"}) =>
         (Mass(marginal_A) = One /\ Mass(marginal_B) = One)
    /\ UpdateSucceeded =>
         /\ TableMassOne(posterior)
         /\ (pc = "marginals") =>
              (Mass(marginal_A) = One /\ Mass(marginal_B) = One)

\* the second successful update of a sequence changed the table
C17_Witness ==
  /\ pc = "marginals" /\ Len(history) >= 1
  /\ IsNormalized(pmf1) /\ IsNormalized(pmf2)
  /\ HistorySucceeded /\ UpdateSucceeded
  /\ posterior # joint
  /\ \E i \in 1..Len(posterior.index), j \in 1..Len(posterior.columns) :
       posterior.data[i][j] \notin {Zero, One}
  /\ TableMassOne(posterior)
  /\ Mass(marginal_A) = One /\ Mass(marginal_B) = One

\* the cells of table t that are 0 are 0 in the posterior
ZerosKept(t) ==
  \A i \in 1..Len(t.index), j \in 1..Len(t.columns) :
    t.data[i][j] = Zero => posterior.data[i][j] = Zero

\* the cells the last update made 0 are cells where its likelihood is 0
ZerosFromLikelihood ==
  \A i \in 1..Len(joint.index), j \in 1..Len(joint.columns) :
    (joint.data[i][j] # Zero /\ posterior.data[i][j] = Zero) =>
      likelihood.data[i][j] = Zero

\* every likelihood of the sequence was on its joint's axes
AxesMatched ==
  /\ SameAxes(joint, likelihood)
  /\ \A k \in 1..Len(history) : SameAxes(history[k].joint, history[k].likelihood)

\* C18: in a sequence of updates with likelihood grids on the joint's axes,
\* a cell that is 0 in a joint table (the first prior or any later one) is 0
\* in every later posterior, and a cell that an update takes from non-zero
\* to 0 is one where that update's likelihood is 0.
C18_ZeroStaysZero ==
  (HasPosterior /\ AxesMatched) =>
    /\ ZerosKept(joint)
    /\ \A k \in 1..Len(history) : ZerosKept(history[k].joint)
    /\ ZerosFromLikelihood

\* the same statement for sequences whose updates all had non-zero evidence
C18_OnSuccessfulUpdates ==
  (HasPosterior /\ AxesMatched /\ HistorySucceeded /\ UpdateSucceeded) =>
    /\ ZerosKept(joint)
    /\ \A k \in 1..Len(history) : ZerosKept(history[k].joint)
    /\ ZerosFromLikelihood

\* the posterior of one update of table t with likelihood l, and its evidence
Posterior(t, l) == normalize_table(FrameMul(t, l))
EvidenceOf(t, l) == normalize_result(FrameMul(t, l))

\* table t with every cell multiplied by c
FrameScale(t, c) ==
  [index |-> t.index, columns |-> t.columns,
   data |-> [i \in 1..Len(t.index) |-> [j \in 1..Len(t.columns) |->
               RMul(t.data[i][j], c)]]]

ScaleFactors == {Rat(2, 1), Rat(1, 3)}

\* the last two updates of the sequence: prior J0, likelihoods L1 then L2
J0 == history[Len(history)].joint
L1 == history[Len(history)].likelihood
L2 == likelihood

\* the second of two updates was just made, both likelihoods on the axes of
\* the first prior (whose posterior, joint, was the second one's prior),
\* the prior's cells are numbers and the combined evidence is non-zero
TwoUpdates ==
  /\ pc = "posterior" /\ Len(history) >= 1
  /\ SameAxes(J0, L1) /\ SameAxes(J0, L2)
  /\ EvidenceOf(J0, FrameMul(L1, L2)) \notin {Zero, NaN}

\* C19: for two updates in sequence, with both likelihoods on the joint's
\* axes and non-zero combined evidence, the posterior equals the one of the
\* updates made in the other order and the one of a single update with the
\* cell by cell product of the likelihoods; the product of the two
\* evidences is the evidence of that single update; and scaling the prior
\* table or a likelihood by a positive constant leaves the posterior as is.
C19_UpdatesComposeAndCommute ==
  TwoUpdates =>
    /\ posterior = Posterior(Posterior(J0, L2), L1)
    /\ posterior = Posterior(J0, FrameMul(L1, L2))
    /\ RMul(history[Len(history)].prob_data, prob_data) =
         EvidenceOf(J0, FrameMul(L1, L2))
    /\ \A c \in ScaleFactors :
         /\ Posterior(FrameScale(J0, c), L1) = joint
         /\ Posterior(J0, FrameScale(L1, c)) = joint
         /\ Posterior(FrameScale(joint, c), L2) = posterior
         /\ Posterior(joint, FrameScale(L2, c)) = posterior

\* two different likelihoods, each of which changed the table
C19_Witness ==
  /\ TwoUpdates
  /\ L1 # L2
  /\ joint # J0
  /\ posterior # joint
  /\ history[Len(history)].prob_data \notin {Zero, One}
  /\ prob_data \notin {Zero, One}
  /\ posterior = Posterior(Posterior(J0, L2), L1)

====
